---- MODULE Spec2Model ----
(***************************************************************************)
(* A model of NickDrake117/GNN_tf_2.x:                                     *)
(*   - BaseGNN.train / evaluate / test / LKO   (src/GNN_BaseClass.py)      *)
(*   - GraphObject construction and merge      (src/gnn2/graph_class.py)   *)
(*                                                                         *)
(* The state propagation network (Loop), the optimizer and the metric      *)
(* functions are opaque collaborators: an optimizer update yields a new    *)
(* weight version, a validation loss is any value of Losses, every other   *)
(* metric value is recorded as 0.                                          *)
(***************************************************************************)
EXTENDS Integers, Sequences, FiniteSets, TLC

VARIABLES
    history,      \* self.history: metric name -> sequence of recorded values
    extra_metrics,\* self.extra_metrics: the names of the extra metrics
    weights,      \* the weights the model holds (a version number)
    steps,        \* optimizer updates applied so far (apply_gradients calls)
    pathExists,   \* whether the directory self.path_writer exists
    calls,        \* train, evaluate and test calls started so far
    pc,           \* position inside train: idle, loop, training, validation, final
    fr,           \* the locals of the running train call
    outcome,      \* how the last train call ended
    error,        \* the exception the last call raised, "" if none
    finalWrite,   \* whether the running/last call did the final telemetry write
    trained,      \* history variable: epoch numbers whose training step ran
    bestEval,     \* history variable: loss and weights of the best validation evaluation
    callLog,      \* history variable: the train calls that returned, with their arguments
    lastTrain,    \* history variable: the arguments of the last train call
    pre           \* history variable: the operation last called and the state it started in

trainVars == <<history, extra_metrics, weights, steps, pathExists, calls, pc, fr,
               outcome, error, finalWrite, trained, bestEval, callLog, lastTrain, pre>>

VARIABLES
    glist,        \* the list of GraphObjects handed to merge
    problem,      \* the problem type the graphs were built for and are merged for
    merged,       \* the GraphObject merge returned
    nested,       \* the result of merging `merged` with a further graph
    glist2,       \* the list handed to the second merge
    bases,        \* history variable: the original graphs `nested` is made of, in order
    aggregation,  \* the node_aggregation the merges are called with
    mpc           \* unused, start, merged, nested

mergeVars == <<glist, problem, merged, nested, glist2, bases, aggregation, mpc>>

VARIABLES
    dform,             \* the form of the dataset LKO is called with
    dataset,           \* the caller's dataset, as it is now
    dataset0,          \* history variable: the caller's dataset when LKO was called
    number_of_batches, \* the argument number_of_batches
    useVa,             \* the argument useVa
    acc_classes,       \* the argument acc_classes
    addressed_problem, \* model.addressed_problem: "c" classification, "r" regression
    batches,           \* LKO's local list `dataset`, the folds are taken from
    metrics,           \* LKO's local mapping `metrics`
    lfold,             \* folds completed
    folds,             \* history variable: test, validation and training batches of each fold
    lerror,            \* the exception LKO raised, "" if none
    lpc                \* unused, start, built, returned, raised

lkoVars == <<dform, dataset, dataset0, number_of_batches, useVa, acc_classes,
             addressed_problem, batches, metrics, lfold, folds, lerror, lpc>>

VARIABLES
    heap,         \* the arrays: a sequence of cells, a reference is an index
    objs,         \* the GraphObjects: attribute -> reference
    expected,     \* history variable: the graph each object is to hold
    inputs,       \* the number of graphs constructed by the caller, objs[1..inputs]
    aproblem,     \* the problem type of these graphs
    written,      \* whether the caller has written into an array
    apc           \* unused, live

aliasVars == <<heap, objs, expected, inputs, aproblem, written, apc>>

VARIABLES
    folder,       \* the graph folder: file name -> content, attribute and number of the save
    saves,        \* saves made into the folder
    lastSaved,    \* history variable: the graph saved last and the variant it was saved in
    sproblem,     \* the problem type of the saved graphs, and the one load is called with
    loaded,       \* the GraphObject load returned
    loadedDims,   \* the number of dimensions of its set_mask and output_mask
    spc           \* unused, ready, loaded

storeVars == <<folder, saves, lastSaved, sproblem, loaded, loadedDims, spc>>

VARIABLES
    bargs,        \* the arguments the GraphObject constructor was called with
    bg,           \* the GraphObject built, or the failed construction
    berror,       \* the exception the last call on the object raised, "" if none
    arcnodeMode,  \* the node_aggregation the ArcNode was built with, "given" if the caller's
    bpc           \* unused, new, built, raised

buildVars == <<bargs, bg, berror, arcnodeMode, bpc>>

VARIABLES
    cargs,        \* the arguments BaseGNN.__init__ was called with
    cerror,       \* the exception BaseGNN.__init__ raised, "" if none
    dirBefore,    \* history variable: the writer directory existed when __init__ was called
    rmtrees       \* history variable: the times the writer directory was removed

lifeVars == <<cargs, cerror, dirBefore, rmtrees>>

vars == <<trainVars, mergeVars, lkoVars, aliasVars, storeVars, buildVars, lifeVars>>

nonTrainVars == <<mergeVars, lkoVars, aliasVars, storeVars, buildVars, lifeVars>>
nonMergeVars == <<trainVars, lkoVars, aliasVars, storeVars, buildVars, lifeVars>>
nonLkoVars == <<trainVars, mergeVars, aliasVars, storeVars, buildVars, lifeVars>>
nonAliasVars == <<trainVars, mergeVars, lkoVars, storeVars, buildVars, lifeVars>>
nonStoreVars == <<trainVars, mergeVars, lkoVars, aliasVars, buildVars, lifeVars>>
nonLifeVars == <<mergeVars, lkoVars, aliasVars, storeVars, buildVars>>
nonBuildVars == <<trainVars, mergeVars, lkoVars, aliasVars, storeVars, lifeVars>>

(***************************************************************************)
(* Bounds of the model                                                     *)
(***************************************************************************)
MaxCalls == 2
MaxEpochs == 3
MaxFreq == 2
MaxFails == 3
MaxLoss == 2
MaxGraphs == 2
MaxNodes == 2
MaxList == 2
MaxBatches == 3
MaxDataset == 3
MaxClasses == 3
MaxPerClass == 2
MaxObjects == 3
MaxSaves == 2
MaxArcs == 2
MaxTrained == 3

\* train(update_freq: int = 10, max_fails: int = 10)
DefaultUpdateFreq == 10
DefaultMaxFails == 10

UpdateFreqs == (1..MaxFreq) \cup {DefaultUpdateFreq}
Losses == 1..MaxLoss
\* float(1e30): larger than every loss a validation set yields
NoBestLoss == MaxLoss + 1
Verboses == {3, 4}
MetricNames == {"Acc"}

\* a graph argument: a GraphObject or list of n GraphObjects, None, or anything else
GraphArgs == {[kind |-> "graphs", n |-> k] : k \in 0..MaxGraphs}
             \cup {[kind |-> "None", n |-> 0], [kind |-> "bad", n |-> 0]}

\* the validation arguments: None (or an empty list), graphs, or anything else;
\* train reads of gVa only its type and whether it is empty
VaArgs == {[kind |-> "None", n |-> 0], [kind |-> "graphs", n |-> 1], [kind |-> "bad", n |-> 0]}

\* the first element in place of the last
First(s) == s[1]

\* s[-1]
Last(s) == s[Len(s)]

NoFrame == [gTr |-> [kind |-> "None", n |-> 0], gVa |-> FALSE, epochs |-> 0,
            update_freq |-> 0, max_fails |-> 0, vbest_loss |-> 0, vfails |-> 0,
            ws |-> 0, initial_epoch |-> 0, next |-> 0, e |-> 0, ebound |-> FALSE,
            i |-> 0, vaRows0 |-> 0]

NoTrain == [gVa |-> FALSE, wellTyped |-> FALSE, verbose |-> 0]

\* the part of the state a failed call must leave alone
Snapshot(opname, bad) == [op |-> opname, badGraph |-> bad, history |-> history,
                          weights |-> weights, steps |-> steps, pathExists |-> pathExists]

(***************************************************************************)
(* BaseGNN.__init__: empty history, writer directory removed               *)
(***************************************************************************)
TrainInit ==
    /\ history = <<>>
    /\ extra_metrics = MetricNames
    /\ weights = 0
    /\ steps = 0
    /\ pathExists = FALSE
    /\ calls = 0
    /\ pc = "idle"
    /\ fr = NoFrame
    /\ outcome = "none"
    /\ error = ""
    /\ finalWrite = FALSE
    /\ trained = <<>>
    /\ bestEval = [loss |-> NoBestLoss, w |-> 0]
    /\ callLog = <<>>
    /\ lastTrain = NoTrain
    /\ pre = Snapshot("none", FALSE)

(***************************************************************************)
(* train: nested helpers                                                   *)
(***************************************************************************)
\* checktype: None, a GraphObject, or a list/tuple of GraphObjects pass
checktype(elem) == elem.kind \in {"None", "graphs"}

\* `if gVa`: a non-empty list
Truthy(elem) == elem.kind = "graphs" /\ elem.n > 0

\* the keys the first train call allocates
HistoryKeys(va) ==
    {"Epoch"}
    \cup {m \o s : m \in {"It", "Loss"} \cup extra_metrics,
                   s \in (IF va THEN {" Tr", " Va"} ELSE {" Tr"})}
    \cup (IF va THEN {"Fail", "Best Loss Va"} ELSE {})

\* evaluate: the metrics mapping, extra metrics + It + Loss
evaluate(loss) ==
    [m \in extra_metrics \cup {"It", "Loss"} |-> IF m = "Loss" THEN loss ELSE 0]

\* update_history raises KeyError on a key the history does not hold
update_history_ok(h, name, val) ==
    \A m \in DOMAIN val : (m \o " " \o name) \in DOMAIN h

update_history(h, name, val) ==
    [k \in DOMAIN h |->
        IF \E m \in DOMAIN val : k = m \o " " \o name
        THEN Append(h[k], val[CHOOSE m \in DOMAIN val : k = m \o " " \o name])
        ELSE h[k]]

\* the entries under k replaced by v
Overwrite(h, k, v) == [h EXCEPT ![k] = <<v>>]

\* self.history[k].append(v)
AppendTo(h, k, v) == [h EXCEPT ![k] = Append(@, v)]

\* an exception leaves train: the locals are gone
Raise(err) ==
    /\ pc' = "idle"
    /\ outcome' = "raised"
    /\ error' = err
    /\ fr' = NoFrame

LogCall(epochs, update_freq, out) ==
    callLog' = Append(callLog, [epochs |-> epochs, update_freq |-> update_freq,
                                outcome |-> out])

(***************************************************************************)
(* train, lines 224-247: argument checks, history and writer directory     *)
(* initialisation, validation parameters, initial epoch                    *)
(***************************************************************************)
Train(gTr, epochs, gVa, update_freq, max_fails, verbose) ==
    /\ pc = "idle"
    /\ UNCHANGED nonTrainVars
    /\ calls < MaxCalls
    /\ calls' = calls + 1
    /\ finalWrite' = FALSE
    /\ pre' = Snapshot("train", verbose \in 0..3 /\ (gTr.kind # "graphs" \/ gVa.kind = "bad"))
    /\ lastTrain' = [gVa |-> Truthy(gVa),
                     wellTyped |-> verbose \in 0..3 /\ gTr.kind = "graphs" /\ gTr.n > 0
                                   /\ gVa.kind # "bad",
                     verbose |-> verbose]
    /\ UNCHANGED <<extra_metrics, weights, steps, trained, bestEval>>
    /\ LET first == DOMAIN history = {}
           h1 == IF first THEN [k \in HistoryKeys(Truthy(gVa)) |-> <<>>] ELSE history
           failed(err, out) ==
               /\ Raise(err)
               /\ UNCHANGED callLog
       IN  IF verbose \notin 0..3
           THEN /\ failed("ValueError", "raised")
                /\ UNCHANGED <<history, pathExists>>
           ELSE IF ~checktype(gTr) \/ ~checktype(gVa)
           THEN /\ failed("TypeError", "raised")
                /\ UNCHANGED <<history, pathExists>>
           ELSE IF first /\ pathExists
           THEN \* os.makedirs on an existing directory
                /\ failed("FileExistsError", "raised")
                /\ history' = h1
                /\ UNCHANGED pathExists
           ELSE IF Truthy(gVa) /\ "Best Loss Va" \notin DOMAIN h1
           THEN \* self.history['Best Loss Va'] on a history allocated without validation
                /\ failed("KeyError", "raised")
                /\ history' = h1
                /\ pathExists' = TRUE
           ELSE /\ history' = h1
                /\ pathExists' = TRUE
                /\ pc' = "loop"
                /\ outcome' = "running"
                /\ error' = ""
                /\ UNCHANGED callLog
                /\ LET initial_epoch == IF h1["Epoch"] # <<>> THEN Last(h1["Epoch"]) + 1 ELSE 0
                   IN fr' = [gTr |-> gTr, gVa |-> Truthy(gVa),
                             epochs |-> epochs + initial_epoch,
                             update_freq |-> update_freq, max_fails |-> max_fails,
                             vbest_loss |-> IF Truthy(gVa)
                                            THEN (IF h1["Best Loss Va"] # <<>>
                                                  THEN Last(h1["Best Loss Va"])
                                                  ELSE NoBestLoss)
                                            ELSE 0,
                             vfails |-> 0,
                             ws |-> IF Truthy(gVa) THEN weights ELSE 0,
                             initial_epoch |-> initial_epoch,
                             next |-> initial_epoch, e |-> 0, ebound |-> FALSE, i |-> 0,
                             vaRows0 |-> IF Truthy(gVa) THEN Len(h1["Loss Va"]) ELSE 0]

(***************************************************************************)
(* train, line 250 and 291-292: the for statement and its else clause      *)
(***************************************************************************)
LoopHead ==
    /\ pc = "loop"
    /\ UNCHANGED nonTrainVars
    /\ IF fr.next < fr.epochs
       THEN /\ fr' = [fr EXCEPT !.e = fr.next, !.ebound = TRUE, !.i = 0]
            /\ pc' = "training"
            /\ trained' = Append(trained, fr.next)
            /\ UNCHANGED outcome
       ELSE /\ pc' = "final"
            /\ outcome' = "epoch-exhausted"
            /\ UNCHANGED <<fr, trained>>
    /\ UNCHANGED <<history, extra_metrics, weights, steps, pathExists, calls, error,
                   finalWrite, bestEval, callLog, lastTrain, pre>>

\* two optimizer updates per graph
TrainingStepTwice ==
    /\ pc = "training"
    /\ UNCHANGED nonTrainVars
    /\ IF fr.gTr.kind = "None"
       THEN \* enumerate(None)
            /\ Raise("TypeError")
            /\ UNCHANGED callLog
            /\ UNCHANGED <<weights, steps>>
       ELSE /\ fr.i < fr.gTr.n
            /\ steps' = steps + 2
            /\ weights' = steps + 2
            /\ fr' = [fr EXCEPT !.i = fr.i + 1]
            /\ UNCHANGED <<pc, outcome, error, callLog>>
    /\ UNCHANGED <<history, extra_metrics, pathExists, calls, finalWrite, trained, bestEval,
                   lastTrain, pre>>

(***************************************************************************)
(* train, lines 253-254 and training_step: one optimizer update per graph  *)
(***************************************************************************)
TrainingStep ==
    /\ pc = "training"
    /\ UNCHANGED nonTrainVars
    /\ IF fr.gTr.kind = "None"
       THEN \* enumerate(None)
            /\ Raise("TypeError")
            /\ UNCHANGED callLog
            /\ UNCHANGED <<weights, steps>>
       ELSE /\ fr.i < fr.gTr.n
            /\ steps' = steps + 1
            /\ weights' = steps + 1
            /\ fr' = [fr EXCEPT !.i = fr.i + 1]
            /\ UNCHANGED <<pc, outcome, error, callLog>>
    /\ UNCHANGED <<history, extra_metrics, pathExists, calls, finalWrite, trained, bestEval,
                   lastTrain, pre>>

(***************************************************************************)
(* train, lines 257-267: evaluation of the training set                    *)
(***************************************************************************)
EvalTr ==
    /\ pc = "training"
    /\ UNCHANGED nonTrainVars
    /\ fr.gTr.kind = "graphs"
    /\ fr.i = fr.gTr.n
    /\ IF fr.e % fr.update_freq # 0
       THEN /\ pc' = "validation"
            /\ UNCHANGED <<history, fr, outcome, error, callLog>>
       ELSE IF fr.gTr.n = 0
       THEN \* evaluate([]): zip(*[]) does not unpack
            /\ Raise("ValueError")
            /\ UNCHANGED callLog
            /\ UNCHANGED history
       ELSE IF ~update_history_ok(history, "Tr", evaluate(0))
       THEN /\ Raise("KeyError")
            /\ UNCHANGED callLog
            /\ history' = AppendTo(history, "Epoch", fr.e)
       ELSE /\ history' = update_history(AppendTo(history, "Epoch", fr.e), "Tr", evaluate(0))
            /\ pc' = "validation"
            /\ UNCHANGED <<fr, outcome, error, callLog>>
    /\ UNCHANGED <<extra_metrics, weights, steps, pathExists, calls, finalWrite, trained,
                   bestEval, lastTrain, pre>>

\* a loss equal to the best counts as an improvement
improvesOrEquals(lossVa, vbest_loss) == lossVa <= vbest_loss

\* if lossVa < vbest_loss
improves(lossVa, vbest_loss) == lossVa < vbest_loss

(***************************************************************************)
(* train, lines 269-290: validation check, history update, early stop      *)
(***************************************************************************)
ValidationStep ==
    /\ pc = "validation"
    /\ UNCHANGED nonTrainVars
    /\ UNCHANGED <<extra_metrics, steps, pathExists, calls, finalWrite, trained, error,
                   callLog, lastTrain, pre>>
    /\ IF ~(fr.e % fr.update_freq = 0 /\ fr.gVa)
       THEN /\ pc' = "loop"
            /\ fr' = [fr EXCEPT !.next = fr.e + 1]
            /\ UNCHANGED <<history, weights, outcome, bestEval>>
       ELSE \E lossVa \in Losses :
            LET better == improves(lossVa, fr.vbest_loss)
                vbest_loss == IF better THEN lossVa ELSE fr.vbest_loss
                vfails == IF better THEN 0 ELSE fr.vfails + 1
                ws == IF better THEN weights ELSE fr.ws
                h1 == AppendTo(AppendTo(history, "Best Loss Va", vbest_loss), "Fail", vfails)
                stop == vfails >= fr.max_fails
            IN  /\ history' = update_history(h1, "Va", evaluate(lossVa))
                /\ bestEval' = IF lossVa < bestEval.loss
                               THEN [loss |-> lossVa, w |-> weights] ELSE bestEval
                /\ fr' = [fr EXCEPT !.vbest_loss = vbest_loss, !.vfails = vfails, !.ws = ws,
                                    !.next = fr.e + 1]
                /\ IF stop
                   THEN /\ weights' = ws
                        /\ outcome' = "early-stopped"
                        /\ pc' = "final"
                   ELSE /\ pc' = "loop"
                        /\ UNCHANGED <<weights, outcome>>

(***************************************************************************)
(* train, lines 294-297: the final telemetry write, which reads `e`        *)
(***************************************************************************)
Final ==
    /\ pc = "final"
    /\ UNCHANGED nonTrainVars
    /\ IF ~fr.ebound
       THEN \* the loop never ran: `e` is unbound
            /\ Raise("UnboundLocalError")
            /\ UNCHANGED callLog
            /\ UNCHANGED finalWrite
       ELSE /\ finalWrite' = TRUE
            /\ pc' = "idle"
            /\ fr' = NoFrame
            /\ LogCall(fr.epochs - fr.initial_epoch, fr.update_freq, outcome)
            /\ UNCHANGED <<outcome, error>>
    /\ UNCHANGED <<history, extra_metrics, weights, steps, pathExists, calls, trained,
                   bestEval, lastTrain, pre>>

TrainCall ==
    \E gTr \in GraphArgs, gVa \in VaArgs, epochs \in 0..MaxEpochs,
       update_freq \in UpdateFreqs, verbose \in Verboses :
        \* max_fails is read only when a validation set is given
        \E max_fails \in (IF Truthy(gVa) THEN 1..MaxFails ELSE {DefaultMaxFails}) :
            Train(gTr, epochs, gVa, update_freq, max_fails, verbose)

(***************************************************************************)
(* evaluate, lines 146-165, and test, lines 312-328: a type check, then    *)
(* the metrics of the graphs; neither writes the history or the weights    *)
(***************************************************************************)
\* evaluate accepts a GraphObject or a list of GraphObjects only
evaluate_typecheck(g) == g.kind = "graphs"

Returns(opname, g, typesOk) ==
    /\ pc = "idle"
    /\ UNCHANGED nonTrainVars
    /\ calls < MaxCalls
    /\ calls' = calls + 1
    /\ pre' = Snapshot(opname, g.kind # "graphs")
    /\ IF ~typesOk
       THEN outcome' = "raised" /\ error' = "TypeError"
       ELSE IF g.n = 0
       THEN \* zip(*[]) does not unpack
            outcome' = "raised" /\ error' = "ValueError"
       ELSE outcome' = "returned" /\ error' = ""
    /\ UNCHANGED <<history, extra_metrics, weights, steps, pathExists, pc, fr,
                   finalWrite, trained, bestEval, callLog, lastTrain>>

Evaluate(g) == Returns("evaluate", g, evaluate_typecheck(g))

Test(gTe, dirsAreStr) == Returns("test", gTe, evaluate_typecheck(gTe) /\ dirsAreStr)

EvaluateCall == \E g \in GraphArgs : Evaluate(g)

TestCall == \E gTe \in GraphArgs, dirsAreStr \in BOOLEAN : Test(gTe, dirsAreStr)

TrainNext ==
    \/ TrainCall
    \/ LoopHead
    \/ TrainingStep
    \/ EvalTr
    \/ ValidationStep
    \/ Final
    \/ EvaluateCall
    \/ TestCall

(***************************************************************************)
(* GraphObject (src/gnn2/graph_class.py).  An optional argument is <<>>    *)
(* (None) or <<x>>.  Node indices in arcs are 0-based as in the code.  A   *)
(* matrix is a sequence of rows; an entry d > 0 stands for the value 1/d,  *)
(* 0 for 0.  The Adjacency matrix is read by no operation modelled here    *)
(* and is left out.                                                        *)
(***************************************************************************)
None == <<>>
Some(x) == <<x>>

ProblemTypes == {"n", "a", "g"}
NodeAggregations == {"sum", "average", "normalized"}

Zeros(n) == [k \in 1..n |-> 0]
Ones(n) == [k \in 1..n |-> TRUE]

\* a constructor that raised
Failed(e) == [err |-> e, arcs |-> <<>>, nodes |-> <<>>, targets |-> <<>>,
              set_mask |-> <<>>, output_mask |-> <<>>, ArcNode |-> <<>>,
              NodeGraph |-> None]

\* every entry 1, whatever the aggregation
buildArcNodeUnweighted(arcs, nodes, node_aggregation) ==
    IF node_aggregation \notin NodeAggregations THEN [err |-> "ValueError", m |-> <<>>]
    ELSE [err |-> "",
          m |-> [i \in 1..Len(arcs) |-> [j \in 1..Len(nodes) |->
                    IF arcs[i][2] = j - 1 THEN 1 ELSE 0]]]

\* buildArcNode: row i has its one entry in the column of arc i's destination
buildArcNode(arcs, nodes, node_aggregation) ==
    LET A == Len(arcs)
        count(i) == Cardinality({k \in 1..A : arcs[k][2] = arcs[i][2]})
        value(i) == CASE node_aggregation = "average" -> count(i)
                      [] node_aggregation = "normalized" -> A
                      [] OTHER -> 1
    IN  IF node_aggregation \notin NodeAggregations THEN [err |-> "ValueError", m |-> <<>>]
        ELSE IF node_aggregation = "normalized" /\ A = 0
        THEN \* float(1 / len(col))
             [err |-> "ZeroDivisionError", m |-> <<>>]
        ELSE [err |-> "",
              m |-> [i \in 1..A |-> [j \in 1..Len(nodes) |->
                        IF arcs[i][2] = j - 1 THEN value(i) ELSE 0]]]

\* buildNodeGraph: an (N x 1) column of 1/N for graph-based problems, else None
buildNodeGraph(nodes, problem_based) ==
    IF problem_based = "g"
    THEN Some([r \in 1..Len(nodes) |-> <<Len(nodes)>>])
    ELSE None

\* GraphObject.__init__
GraphObject(arcs, nodes, targets, problem_based, set_mask, output_mask, NodeGraph, ArcNode, node_aggregation) ==
    IF set_mask = None /\ problem_based \notin ProblemTypes
    THEN \* lenMask[problem_based]
         Failed("KeyError")
    ELSE
    LET lenMask == IF problem_based = "a" THEN Len(arcs) ELSE Len(nodes)
        sm == IF set_mask = None THEN Ones(lenMask) ELSE set_mask[1]
        om == IF output_mask = None THEN Ones(Len(sm)) ELSE output_mask[1]
        an == IF ArcNode = None THEN buildArcNode(arcs, nodes, node_aggregation)
              ELSE [err |-> "", m |-> ArcNode[1]]
    IN  IF Len(sm) # Len(om) THEN Failed("ValueError")
        ELSE IF an.err # "" THEN Failed(an.err)
        ELSE [err |-> "", arcs |-> arcs, nodes |-> nodes, targets |-> targets,
              set_mask |-> sm, output_mask |-> om, ArcNode |-> an.m,
              NodeGraph |-> IF NodeGraph = None THEN buildNodeGraph(nodes, problem_based)
                            ELSE NodeGraph]

RECURSIVE ConcatAll(_)
\* np.concatenate(..., axis=0)
ConcatAll(seqs) == IF seqs = <<>> THEN <<>> ELSE Head(seqs) \o ConcatAll(Tail(seqs))

RECURSIVE SumFirst(_, _)
\* sum(nodes_lens[:i])
SumFirst(lens, i) == IF i = 0 THEN 0 ELSE lens[i] + SumFirst(lens, i - 1)

\* the offset added to the first column only
ShiftArcsFromOnly(arcs, offset) ==
    [k \in 1..Len(arcs) |-> <<arcs[k][1] + offset, arcs[k][2], arcs[k][3]>>]

\* elem[:, :2] += offset
ShiftArcs(arcs, offset) ==
    [k \in 1..Len(arcs) |-> <<arcs[k][1] + offset, arcs[k][2] + offset, arcs[k][3]>>]

Cols(m) == IF m = <<>> THEN 0 ELSE Len(m[1])

\* the blocks stacked in the same columns
block_stack(mats) == ConcatAll(mats)

RECURSIVE block_diag(_)
\* scipy.linalg.block_diag
block_diag(mats) ==
    IF mats = <<>> THEN <<>>
    ELSE LET A == Head(mats)
             R == block_diag(Tail(mats))
         IN  [r \in 1..Len(A) |-> A[r] \o Zeros(Cols(R))]
             \o [r \in 1..Len(R) |-> Zeros(Cols(A)) \o R[r]]

\* GraphObject.merge
merge(gl, problem_based, node_aggregation) ==
    IF gl = <<>>
    THEN \* zip(*[]) does not unpack
         Failed("ValueError")
    ELSE
    LET nodes_lens == [i \in 1..Len(gl) |-> Len(gl[i].nodes)]
        arcs == ConcatAll([i \in 1..Len(gl) |->
                              ShiftArcs(gl[i].arcs, SumFirst(nodes_lens, i - 1))])
        nodes == ConcatAll([i \in 1..Len(gl) |-> gl[i].nodes])
        targets == ConcatAll([i \in 1..Len(gl) |-> gl[i].targets])
        set_mask == ConcatAll([i \in 1..Len(gl) |-> gl[i].set_mask])
        output_mask == ConcatAll([i \in 1..Len(gl) |-> gl[i].output_mask])
        nodegraph == IF problem_based = "g"
                     THEN Some(block_diag([i \in 1..Len(gl) |-> gl[i].NodeGraph[1]]))
                     ELSE None
    IN  GraphObject(arcs, nodes, targets, problem_based, Some(set_mask),
                    Some(output_mask), nodegraph, None, node_aggregation)

(***************************************************************************)
(* The graphs merge is applied to: N nodes with distinct labels, one of    *)
(* four arc layouts, default masks or explicit masks for the whole list.   *)
(***************************************************************************)
ArcLayouts == {"none", "loop", "cycle", "fan"}

\* the (from, to) pairs of a layout over nodes 0..N-1
Layout(shape, N) ==
    CASE shape = "none" -> <<>>
      [] shape = "loop" -> << <<N - 1, N - 1>> >>
      [] shape = "cycle" -> [k \in 1..N |-> <<k - 1, k % N>>]
      [] OTHER -> [k \in 1..(N + 1) |-> <<IF k > N THEN N - 1 ELSE k - 1, 0>>]

\* graph number tag with N nodes, built as the constructor builds it
InputGraph(tag, N, shape, explicitMasks, problem_based) ==
    LET ends == Layout(shape, N)
        arcs == [k \in 1..Len(ends) |-> <<ends[k][1], ends[k][2], 100 * tag + k>>]
        nodes == [j \in 1..N |-> 10 * tag + j]
        T == CASE problem_based = "n" -> N
               [] problem_based = "a" -> Len(arcs)
               [] OTHER -> 1
        targets == [j \in 1..T |-> 1000 * tag + j]
        L == IF problem_based = "a" THEN Len(arcs) ELSE N
    IN  GraphObject(arcs, nodes, targets, problem_based,
                    IF explicitMasks THEN Some([k \in 1..L |-> k % 2 = 1]) ELSE None,
                    IF explicitMasks THEN Some([k \in 1..L |-> k % 2 = 0]) ELSE None,
                    None, None, "average")

InputChoices == (1..MaxNodes) \X ArcLayouts

NoGraph == Failed("unused")

MergeIdle ==
    /\ glist = <<>>
    /\ problem = "n"
    /\ merged = NoGraph
    /\ nested = NoGraph
    /\ glist2 = <<>>
    /\ bases = <<>>
    /\ aggregation = "average"
    /\ mpc = "unused"

MergeInit ==
    /\ problem \in ProblemTypes
    /\ \E k \in 1..MaxList, explicitMasks \in BOOLEAN : \E ch \in [1..k -> InputChoices] :
          glist = [i \in 1..k |-> InputGraph(i, ch[i][1], ch[i][2], explicitMasks, problem)]
    /\ merged = NoGraph
    /\ nested = NoGraph
    /\ glist2 = <<>>
    /\ bases = <<>>
    /\ aggregation \in NodeAggregations
    /\ mpc = "start"

\* merge(glist, problem_based, node_aggregation)
DoMerge ==
    /\ mpc = "start"
    /\ merged' = merge(glist, problem, aggregation)
    /\ mpc' = "merged"
    /\ UNCHANGED <<glist, problem, nested, glist2, bases, aggregation>>
    /\ UNCHANGED nonMergeVars

\* merge of the merged graph with one more graph, before or after it
MergeAgain(N, first) ==
    /\ mpc = "merged"
    /\ merged.err = ""
    /\ LET g == InputGraph(Len(glist) + 1, N, "cycle", FALSE, problem)
           gl == IF first THEN <<merged, g>> ELSE <<g, merged>>
       IN  /\ nested' = merge(gl, problem, aggregation)
           /\ glist2' = gl
           /\ bases' = IF first THEN Append(glist, g) ELSE <<g>> \o glist
    /\ mpc' = "nested"
    /\ UNCHANGED <<glist, problem, merged, aggregation>>
    /\ UNCHANGED nonMergeVars

MergeNext ==
    \/ DoMerge
    \/ \E N \in 1..MaxNodes, first \in BOOLEAN : MergeAgain(N, first)

(***************************************************************************)
(* BaseGNN.LKO (src/GNN_BaseClass.py, lines 331-432).  A graph of a list   *)
(* dataset is a number; graph 10*c + j is the j-th graph of class c.  The  *)
(* model copy of a fold is trained for at least one epoch; its train and   *)
(* test calls are summarised by what they raise and by the keys of the     *)
(* metrics test returns.  normalize_graphs changes no structure the        *)
(* procedure reads and is left out.                                        *)
(***************************************************************************)
DatasetForms == {"single", "flat", "nested"}
AddressedProblems == {"c", "r"}

NoDataset == [entities |-> 0, list |-> <<>>, classes |-> <<>>]

\* the datasets LKO is called with
Datasets(form) ==
    CASE form = "single" ->
            {[NoDataset EXCEPT !.entities = n] : n \in 1..MaxDataset}
      [] form = "flat" ->
            {[NoDataset EXCEPT !.list = [j \in 1..n |-> 10 + j]] : n \in 1..MaxDataset}
      [] OTHER ->
            {[NoDataset EXCEPT !.classes = [c \in DOMAIN sz |->
                                               [j \in 1..sz[c] |-> 10 * c + j]]] :
                 sz \in UNION {[1..k -> 1..MaxPerClass] : k \in 1..MaxClasses}}

\* the orders random.shuffle can leave n elements in
Perms(n) == {p \in [1..n -> 1..n] : \A a, b \in 1..n : p[a] = p[b] => a = b}

Permute(s, p) == [k \in 1..Len(s) |-> s[p[k]]]

Min(a, b) == IF a < b THEN a ELSE b

\* numpy.array_split(s, n): n contiguous sections, the first Len(s) % n one longer
SplitStart(L, n, k) == (k - 1) * (L \div n) + Min(k - 1, L % n)

array_split(s, n) ==
    [k \in 1..n |-> SubSeq(s, SplitStart(Len(s), n, k) + 1, SplitStart(Len(s), n, k + 1))]

\* the section of array_split position a of L elements falls in
SectionOf(L, n, a) == CHOOSE k \in 1..n : SplitStart(L, n, k) < a /\ a <= SplitStart(L, n, k + 1)

\* getbatches(elem, node_aggregation, -1, number_of_batches, one_graph_per_batch=False)
getbatches(elem, n_batches) == array_split(elem, n_batches)

\* an element of the local list `dataset` the folds are taken from
GraphBatch(ids, mask) == [isGraph |-> TRUE, ids |-> ids, mask |-> mask]
ListBatch(ids) == [isGraph |-> FALSE, ids |-> ids, mask |-> {}]

\* the argument train, evaluate and test see in a list of batches
AsArg(bs) == [kind |-> IF \A k \in 1..Len(bs) : bs[k].isGraph THEN "graphs" ELSE "bad",
              n |-> Len(bs)]

\* one element handed over as it is: a GraphObject, or a list of GraphObjects
ElemArg(b) == [kind |-> "graphs", n |-> IF b.isGraph THEN 1 ELSE Len(b.ids)]

\* temp.train(gTr, epochs, gVa, ...) on a fresh copy, epochs >= 1: what it raises
TrainRaises(gTr, gVa) ==
    IF ~checktype(gTr) \/ ~checktype(gVa) THEN "TypeError"
    ELSE IF gTr.n = 0 THEN "ValueError"
    ELSE ""

\* temp.test(gTe, acc_classes=acc_classes, pos_label=pos_label): what it raises
TestRaises(gTe) ==
    IF ~evaluate_typecheck(gTe) THEN "TypeError"
    ELSE IF gTe.n = 0 THEN "ValueError"
    ELSE ""

\* the keys of the mapping test returns
TestKeys(acc, addressed) ==
    DOMAIN evaluate(0)
    \cup (IF acc /\ addressed = "c" THEN {"Acc Classes"} ELSE {})

LkoIdle ==
    /\ dform = "unused"
    /\ dataset = NoDataset
    /\ dataset0 = NoDataset
    /\ number_of_batches = 0
    /\ useVa = FALSE
    /\ acc_classes = FALSE
    /\ addressed_problem = "c"
    /\ batches = <<>>
    /\ metrics = <<>>
    /\ lfold = 0
    /\ folds = <<>>
    /\ lerror = ""
    /\ lpc = "unused"

LkoInit ==
    /\ dform \in DatasetForms
    /\ dataset \in Datasets(dform)
    /\ dataset0 = dataset
    /\ number_of_batches \in 1..MaxBatches
    /\ useVa \in BOOLEAN
    /\ acc_classes \in BOOLEAN
    /\ addressed_problem \in AddressedProblems
    /\ batches = <<>>
    /\ metrics = <<>>
    /\ lfold = 0
    /\ folds = <<>>
    /\ lerror = ""
    /\ lpc = "start"

\* the orders random.shuffle can leave the list s in
Shuffles(s) == {Permute(s, p) : p \in Perms(Len(s))}

\* LKO, lines 368-407: the local list `dataset` of batches and the empty metrics
LKOBuild ==
    /\ lpc = "start"
    /\ UNCHANGED nonLkoVars
    /\ UNCHANGED <<dform, dataset0, number_of_batches, useVa, acc_classes,
                   addressed_problem, lfold, folds>>
    /\ LET nb == number_of_batches + (IF useVa THEN 1 ELSE 0)
           keys == extra_metrics \cup {"It", "Loss"}
                   \cup (IF acc_classes THEN {"Acc Classes"} ELSE {})
           built(bs) == /\ batches' = bs
                        /\ metrics' = [k \in keys |-> <<>>]
                        /\ lpc' = "built"
                        /\ UNCHANGED lerror
       IN  CASE dform = "single" ->
                \* shuffled entity indices, split, one masked copy of the graph each
                /\ \E p \in Perms(dataset.entities) :
                      LET mask_indicess == Permute([k \in 1..dataset.entities |-> k - 1], p)
                          masks == array_split(mask_indicess, nb)
                      IN  built([k \in 1..nb |->
                                   GraphBatch(<<>>, {masks[k][a] : a \in 1..Len(masks[k])})])
                /\ UNCHANGED dataset
             [] dform = "flat" ->
                \* dataset = [dataset]; for i in dataset: random.shuffle(i)
                \E shuffled \in Shuffles(dataset.list) :
                   LET dataset_batches == << getbatches(shuffled, nb) >>
                       flattened == [j \in 1..nb |->
                                        ConcatAll([c \in 1..Len(dataset_batches) |->
                                                      dataset_batches[c][j]])]
                   IN  /\ dataset' = [dataset EXCEPT !.list = shuffled]
                       /\ \E sh \in [1..nb -> UNION {Shuffles(flattened[j]) : j \in 1..nb}] :
                             /\ \A j \in 1..nb : sh[j] \in Shuffles(flattened[j])
                             /\ IF \E j \in 1..nb : sh[j] = <<>>
                                THEN \* GraphObject.merge([])
                                     /\ lpc' = "raised"
                                     /\ lerror' = "ValueError"
                                     /\ UNCHANGED <<batches, metrics>>
                                ELSE built([j \in 1..nb |-> GraphBatch(sh[j], {})])
             [] OTHER ->
                \* else: pass
                /\ built([c \in 1..Len(dataset.classes) |-> ListBatch(dataset.classes[c])])
                /\ UNCHANGED dataset

\* gTr = dataset.copy(); gTe = gTr.pop(i): the positions left, in order
PopAt(n, i) == [k \in 1..(n - 1) |-> IF k < i THEN k ELSE k + 1]

\* LKO, lines 410-431: one fold, a fresh model copy trained and tested
LKOFold ==
    /\ lpc = "built"
    /\ lfold < Len(batches) - (IF useVa THEN 1 ELSE 0)
    /\ UNCHANGED nonLkoVars
    /\ UNCHANGED <<dform, dataset, dataset0, number_of_batches, useVa, acc_classes,
                   addressed_problem, batches>>
    /\ LET i == lfold + 1
           rest == PopAt(Len(batches), i)
           va == IF useVa THEN Last(rest) ELSE 0
           tr == IF useVa THEN SubSeq(rest, 1, Len(rest) - 1) ELSE rest
           gTr == AsArg([k \in 1..Len(tr) |-> batches[tr[k]]])
           gVa == IF useVa THEN ElemArg(batches[va]) ELSE [kind |-> "None", n |-> 0]
           gTe == ElemArg(batches[i])
           raised == IF TrainRaises(gTr, gVa) # "" THEN TrainRaises(gTr, gVa)
                     ELSE TestRaises(gTe)
           M == TestKeys(acc_classes, addressed_problem)
       IN  /\ folds' = Append(folds, [te |-> i, va |-> va, tr |-> tr])
           /\ IF raised # ""
              THEN /\ lpc' = "raised"
                   /\ lerror' = raised
                   /\ UNCHANGED <<metrics, lfold>>
              ELSE \* for m in M: metrics[m].append(M[m])
                   /\ metrics' = [k \in DOMAIN metrics |->
                                     IF k \in M THEN Append(metrics[k], i) ELSE metrics[k]]
                   /\ lfold' = lfold + 1
                   /\ UNCHANGED <<lpc, lerror>>

\* LKO, line 432: return metrics
LKOReturn ==
    /\ lpc = "built"
    /\ lfold = Len(batches) - (IF useVa THEN 1 ELSE 0)
    /\ lpc' = "returned"
    /\ UNCHANGED nonLkoVars
    /\ UNCHANGED <<dform, dataset, dataset0, number_of_batches, useVa, acc_classes,
                   addressed_problem, batches, metrics, lfold, folds, lerror>>

LkoNext ==
    \/ LKOBuild
    \/ LKOFold
    \/ LKOReturn

(***************************************************************************)
(* Storage of GraphObjects.  An array is a cell of the heap; a GraphObject *)
(* holds one reference per attribute (0 for a NodeGraph that is None).     *)
(* The getters return `.copy()` of the array (graph_class.py, lines        *)
(* 147-169), the constructor stores `.astype(...)` of what it is given     *)
(* (lines 34-36, 46-48, 57-60).                                            *)
(***************************************************************************)
FieldSeq == <<"arcs", "nodes", "targets", "set_mask", "output_mask", "ArcNode", "NodeGraph">>

NoRef == 0

\* a new array holding v
Alloc(h, v) == [heap |-> Append(h, v), ref |-> Len(h) + 1]

\* the same array handed out again
sameArray(h, ref) == [heap |-> h, ref |-> ref]

\* getArcs, getNodes, ...: self.<attribute>.copy(); getNodeGraph keeps None
getter(h, ref) == IF ref = NoRef THEN [heap |-> h, ref |-> NoRef] ELSE Alloc(h, h[ref])

\* ndarray.astype(dtype): a new array
astype(h, ref) == IF ref = NoRef THEN [heap |-> h, ref |-> NoRef] ELSE Alloc(h, h[ref])

NoObject == [f \in {FieldSeq[k] : k \in 1..Len(FieldSeq)} |-> NoRef]

\* the attribute f of the constructed graph g as an array, <<>> if it is None
ArrayOf(g, f) == IF f = "NodeGraph"
                 THEN (IF g.NodeGraph = None THEN <<>> ELSE g.NodeGraph[1])
                 ELSE g[f]

RECURSIVE StoreFields(_, _, _, _)
\* GraphObject.__init__: every attribute of the new object in an array of its own
StoreFields(h, g, k, o) ==
    IF k > Len(FieldSeq) THEN [heap |-> h, obj |-> o]
    ELSE LET f == FieldSeq[k]
         IN  IF f = "NodeGraph" /\ g.NodeGraph = None
             THEN StoreFields(h, g, k + 1, o)
             ELSE LET a == Alloc(h, ArrayOf(g, f))
                  IN  StoreFields(a.heap, g, k + 1, [o EXCEPT ![f] = a.ref])

\* the graph an object holds, read through its references
Value(h, o) ==
    [err |-> "", arcs |-> h[o.arcs], nodes |-> h[o.nodes], targets |-> h[o.targets],
     set_mask |-> h[o.set_mask], output_mask |-> h[o.output_mask],
     ArcNode |-> h[o.ArcNode],
     NodeGraph |-> IF o.NodeGraph = NoRef THEN None ELSE Some(h[o.NodeGraph])]

RECURSIVE CopyFields(_, _, _, _)
\* GraphObject.copy: GraphObject(arcs=self.getArcs(), ..., ArcNode=self.getArcNode())
CopyFields(h, o, k, c) ==
    IF k > Len(FieldSeq) THEN [heap |-> h, obj |-> c]
    ELSE LET f == FieldSeq[k]
             got == getter(h, o[f])
             kept == astype(got.heap, got.ref)
         IN  CopyFields(kept.heap, o, k + 1, [c EXCEPT ![f] = kept.ref])

RECURSIVE ShiftInputs(_, _, _, _)
\* merge, lines 282-287: the arcs the getters hand out, each shifted in place
ShiftInputs(h, os, i, refs) ==
    IF i > Len(os) THEN [heap |-> h, refs |-> refs]
    ELSE LET got == getter(h, os[i].arcs)
             offset == SumFirst([j \in 1..Len(os) |-> Len(h[os[j].nodes])], i - 1)
             h2 == [got.heap EXCEPT ![got.ref] = ShiftArcs(@, offset)]
         IN  ShiftInputs(h2, os, i + 1, Append(refs, got.ref))

\* GraphObject.merge over objects: the heap after the call and the new object
mergeObjects(h, os, problem_based, node_aggregation) ==
    LET sh == ShiftInputs(h, os, 1, <<>>)
        col(f) == ConcatAll([i \in 1..Len(os) |-> h[os[i][f]]])
        arcs == ConcatAll([i \in 1..Len(os) |-> sh.heap[sh.refs[i]]])
        nodegraph == IF problem_based = "g"
                     THEN Some(block_diag([i \in 1..Len(os) |-> h[os[i].NodeGraph]]))
                     ELSE None
        g == GraphObject(arcs, col("nodes"), col("targets"), problem_based,
                         Some(col("set_mask")), Some(col("output_mask")), nodegraph,
                         None, node_aggregation)
    IN  IF g.err # "" THEN [heap |-> sh.heap, obj |-> NoObject, err |-> g.err]
        ELSE LET st == StoreFields(sh.heap, g, 1, NoObject)
             IN  [heap |-> st.heap, obj |-> st.obj, err |-> ""]

\* a write into the first entry of an array of attribute f
Bump(f, v) ==
    CASE f = "arcs" -> [v EXCEPT ![1] = <<v[1][1], v[1][2], v[1][3] + 1>>]
      [] f \in {"nodes", "targets"} -> [v EXCEPT ![1] = @ + 1]
      [] f \in {"set_mask", "output_mask"} -> [v EXCEPT ![1] = ~@]
      [] OTHER -> [v EXCEPT ![1] = [@ EXCEPT ![1] = @ + 1]]

AliasIdle ==
    /\ heap = <<>>
    /\ objs = <<>>
    /\ expected = <<>>
    /\ inputs = 0
    /\ aproblem = "n"
    /\ written = FALSE
    /\ apc = "unused"

RECURSIVE StoreAll(_, _, _, _)
\* the graphs of gs constructed one after the other
StoreAll(h, gs, i, os) ==
    IF i > Len(gs) THEN [heap |-> h, objs |-> os]
    ELSE LET st == StoreFields(h, gs[i], 1, NoObject)
         IN  StoreAll(st.heap, gs, i + 1, Append(os, st.obj))

AliasInit ==
    /\ aproblem \in ProblemTypes
    /\ inputs \in 1..MaxList
    /\ \E ch \in [1..inputs -> 1..MaxNodes] :
          LET gs == [i \in 1..inputs |-> InputGraph(i, ch[i], "cycle", FALSE, aproblem)]
              st == StoreAll(<<>>, gs, 1, <<>>)
          IN  /\ heap = st.heap
              /\ objs = st.objs
              /\ expected = gs
    /\ written = FALSE
    /\ apc = "live"

\* c = objs[o].copy()
AliasCopy(o) ==
    /\ apc = "live"
    /\ Len(objs) < MaxObjects
    /\ LET c == CopyFields(heap, objs[o], 1, NoObject)
       IN  /\ heap' = c.heap
           /\ objs' = Append(objs, c.obj)
           /\ expected' = Append(expected, expected[o])
    /\ UNCHANGED <<inputs, aproblem, written, apc>>
    /\ UNCHANGED nonAliasVars

\* m = GraphObject.merge(the input graphs, aproblem, node_aggregation)
AliasMerge(node_aggregation) ==
    /\ apc = "live"
    /\ Len(objs) < MaxObjects
    /\ LET m == mergeObjects(heap, SubSeq(objs, 1, inputs), aproblem, node_aggregation)
       IN  /\ heap' = m.heap
           /\ IF m.err # ""
              THEN UNCHANGED <<objs, expected>>
              ELSE /\ objs' = Append(objs, m.obj)
                   /\ expected' = Append(expected,
                                         merge(SubSeq(expected, 1, inputs), aproblem,
                                               node_aggregation))
    /\ UNCHANGED <<inputs, aproblem, written, apc>>
    /\ UNCHANGED nonAliasVars

\* the caller writes into an array of object o
AliasWrite(o, f) ==
    /\ apc = "live"
    /\ ~written
    /\ objs[o][f] # NoRef
    /\ heap[objs[o][f]] # <<>>
    /\ heap' = [heap EXCEPT ![objs[o][f]] = Bump(f, @)]
    /\ expected' = [expected EXCEPT ![o] =
                       IF f = "NodeGraph"
                       THEN [@ EXCEPT !.NodeGraph = Some(Bump(f, @[1]))]
                       ELSE [@ EXCEPT ![f] = Bump(f, @)]]
    /\ written' = TRUE
    /\ UNCHANGED <<objs, inputs, aproblem, apc>>
    /\ UNCHANGED nonAliasVars

AliasNext ==
    \/ \E o \in 1..Len(objs) : AliasCopy(o)
    \/ \E node_aggregation \in NodeAggregations : AliasMerge(node_aggregation)
    \/ \E o \in 1..Len(objs), k \in 1..Len(FieldSeq) : AliasWrite(o, FieldSeq[k])

(***************************************************************************)
(* save_graph / save_txt and load / load_txt (graph_class.py, lines        *)
(* 172-266).  The folder maps a file name to its content and to the number *)
(* of the save that wrote it.  A .npy file gives back the array it was     *)
(* written from; a .txt file is read by loadtxt with ndmin=2, which gives  *)
(* back a matrix as it was and a one-dimensional array as a column.  An    *)
(* array read back is its entries in order and its number of dimensions.   *)
(***************************************************************************)
Variants == {"npy", "txt"}

\* an N x 1 NodeGraph given by the caller, every entry 1/(N + 1)
CustomNodeGraph(N) == [r \in 1..N |-> <<N + 1>>]

\* the graphs that are saved: N nodes on a cycle, default or explicit masks, a
\* default or a caller-given NodeGraph, and the merge of two such graphs
SavedGraphs(problem_based) ==
    {GraphObject(InputGraph(1, N, "cycle", FALSE, problem_based).arcs,
                 InputGraph(1, N, "cycle", FALSE, problem_based).nodes,
                 InputGraph(1, N, "cycle", FALSE, problem_based).targets,
                 problem_based,
                 IF masks THEN Some([k \in 1..N |-> k % 2 = 1]) ELSE None,
                 IF masks THEN Some([k \in 1..N |-> k % 2 = 0]) ELSE None,
                 IF custom THEN Some(CustomNodeGraph(N)) ELSE None,
                 None, "average") :
        N \in 1..MaxNodes, masks \in BOOLEAN,
        custom \in (IF problem_based = "g" THEN BOOLEAN ELSE {FALSE})}
    \cup {merge(<<InputGraph(1, N, "cycle", FALSE, problem_based),
                  InputGraph(2, 1, "cycle", FALSE, problem_based)>>,
                problem_based, "average") : N \in 1..MaxNodes}

\* all(mask)
AllTrue(mask) == \A k \in 1..Len(mask) : mask[k]

\* the attributes save_graph and save_txt write
SavedNames(g) ==
    {"arcs", "nodes", "targets"}
    \cup (IF ~AllTrue(g.set_mask) THEN {"set_mask"} ELSE {})
    \cup (IF ~AllTrue(g.output_mask) THEN {"output_mask"} ELSE {})
    \cup (IF g.NodeGraph # None /\ Len(g.targets) > 1 THEN {"NodeGraph"} ELSE {})

\* the dimensions of the array a GraphObject holds under name
Ndim(name) == IF name \in {"set_mask", "output_mask"} THEN 1 ELSE 2

\* np.save then np.load: the array
npy(a, ndim) == [data |-> a, ndim |-> ndim]

\* np.savetxt then np.loadtxt(..., ndmin=2): a one-dimensional array becomes a column
txt(a, ndim) == [data |-> a, ndim |-> 2]

\* what reading the file of attribute name gives back
ReadBack(g, name, variant) ==
    LET a == IF name = "NodeGraph" THEN g.NodeGraph[1] ELSE g[name]
    IN  IF variant = "npy" THEN npy(a, Ndim(name)) ELSE txt(a, Ndim(name))

\* the dimensions of the masks of a GraphObject built with default masks
NoDims == [set_mask |-> 1, output_mask |-> 1]

StoreIdle ==
    /\ folder = <<>>
    /\ saves = 0
    /\ lastSaved = [g |-> NoGraph, variant |-> "npy"]
    /\ sproblem = "n"
    /\ loaded = NoGraph
    /\ loadedDims = NoDims
    /\ spc = "unused"

StoreInit ==
    /\ folder = <<>>
    /\ saves = 0
    /\ lastSaved = [g |-> NoGraph, variant |-> "npy"]
    /\ sproblem \in ProblemTypes
    /\ loaded = NoGraph
    /\ loadedDims = NoDims
    /\ spc = "ready"

\* GraphObject.save_graph(path, g) or GraphObject.save_txt(path, g)
Save(g, variant) ==
    /\ spc \in {"ready", "loaded"}
    /\ saves < MaxSaves
    /\ saves' = saves + 1
    /\ folder' = [name \in {n \o "." \o variant : n \in SavedNames(g)} |->
                     [array |-> ReadBack(g, CHOOSE n \in SavedNames(g) :
                                                name = n \o "." \o variant, variant),
                      key |-> CHOOSE n \in SavedNames(g) : name = n \o "." \o variant,
                      save |-> saves + 1]]
    /\ lastSaved' = [g |-> g, variant |-> variant]
    /\ spc' = "ready"
    /\ UNCHANGED <<sproblem, loaded, loadedDims>>
    /\ UNCHANGED nonStoreVars

\* GraphObject.load / load_txt(path, problem_based, node_aggregation) of a folder
\* written by the save of the same variant
Load(node_aggregation) ==
    /\ spc = "ready"
    /\ saves > 0
    /\ LET given(k) == IF \E f \in DOMAIN folder : folder[f].key = k
                       THEN Some(folder[CHOOSE f \in DOMAIN folder : folder[f].key = k].array)
                       ELSE None
           data(k) == IF given(k) = None THEN None ELSE Some(given(k)[1].data)
           \* set_mask.astype(bool) keeps the shape of the array it is given
           dims(k) == IF given(k) = None THEN 1 ELSE given(k)[1].ndim
       IN  /\ loaded' = GraphObject(data("arcs")[1], data("nodes")[1], data("targets")[1],
                                    sproblem, data("set_mask"), data("output_mask"),
                                    data("NodeGraph"), None, node_aggregation)
           /\ loadedDims' = [set_mask |-> dims("set_mask"), output_mask |-> dims("output_mask")]
    /\ spc' = "loaded"
    /\ UNCHANGED <<folder, saves, lastSaved, sproblem>>
    /\ UNCHANGED nonStoreVars

StoreNext ==
    \/ \E g \in SavedGraphs(sproblem), variant \in Variants : Save(g, variant)
    \/ \E node_aggregation \in NodeAggregations : Load(node_aggregation)

(***************************************************************************)
(* Construction of one GraphObject from caller-chosen arguments, and       *)
(* setArcNode on the object built (graph_class.py, lines 13-60, 79-113).   *)
(***************************************************************************)
\* values of problem_based and node_aggregation a caller may pass, one outside each set
ProblemArgs == ProblemTypes \cup {"x"}
AggregationArgs == NodeAggregations \cup {"max"}

\* the arc lists over N nodes, of at most MaxArcs arcs, ordered by (from, to)
ArcLists(N) ==
    LET pairs == (0..(N - 1)) \X (0..(N - 1))
        rank(p) == p[1] * N + p[2]
        lists == UNION {[1..A -> pairs] : A \in 0..MaxArcs}
    IN  {[k \in 1..Len(l) |-> <<l[k][1], l[k][2], 100 + k>>] :
            l \in {s \in lists : \A k \in 1..(Len(s) - 1) : rank(s[k]) <= rank(s[k + 1])}}

NodeList(N) == [k \in 1..N |-> 10 + k]

\* a mask of length L that is not all True
MaskOf(L) == [k \in 1..L |-> k % 2 = 1]

\* the (set_mask, output_mask) arguments: each omitted or given, as long as the
\* nodes, as the arcs or neither, of one length or of two
MaskArgs(N, A) ==
    {<<None, None>>, <<None, Some(MaskOf(N))>>, <<None, Some(MaskOf(N + 1))>>,
     <<Some(MaskOf(N)), None>>, <<Some(MaskOf(A)), None>>, <<Some(MaskOf(N + 1)), None>>,
     <<Some(MaskOf(N)), Some(MaskOf(N))>>, <<Some(MaskOf(N)), Some(MaskOf(N + 1))>>}

\* an ArcNode matrix given by the caller: A x N, every entry 1
CustomArcNode(A, N) == [i \in 1..A |-> [j \in 1..N |-> 1]]

NoArgs == [arcs |-> <<>>, nodes |-> <<>>, problem_based |-> "n", set_mask |-> None, output_mask |-> None, NodeGraph |-> None, ArcNode |-> None, node_aggregation |-> "average"]

BuildIdle ==
    /\ bargs = NoArgs
    /\ bg = NoGraph
    /\ berror = ""
    /\ arcnodeMode = ""
    /\ bpc = "unused"

BuildInit ==
    /\ bargs = NoArgs
    /\ bg = NoGraph
    /\ berror = ""
    /\ arcnodeMode = ""
    /\ bpc = "new"

\* g = GraphObject(arcs, nodes, targets, problem_based, set_mask, output_mask, NodeGraph, ArcNode, node_aggregation)
Construct(arcs, nodes, targets, problem_based, set_mask, output_mask, NodeGraph, ArcNode, node_aggregation) ==
    /\ bpc = "new"
    /\ bargs' = [arcs |-> arcs, nodes |-> nodes, problem_based |-> problem_based, set_mask |-> set_mask, output_mask |-> output_mask, NodeGraph |-> NodeGraph, ArcNode |-> ArcNode, node_aggregation |-> node_aggregation]
    /\ bg' = GraphObject(arcs, nodes, targets, problem_based, set_mask, output_mask, NodeGraph, ArcNode, node_aggregation)
    /\ berror' = bg'.err
    /\ arcnodeMode' = IF bg'.err # "" THEN "" ELSE IF ArcNode = None THEN node_aggregation ELSE "given"
    /\ bpc' = IF bg'.err = "" THEN "built" ELSE "raised"
    /\ UNCHANGED nonBuildVars

\* g.setArcNode(node_aggregation)
SetArcNode(node_aggregation) ==
    /\ bpc = "built"
    /\ LET r == buildArcNode(bg.arcs, bg.nodes, node_aggregation)
       IN  /\ bg' = IF r.err = "" THEN [bg EXCEPT !.ArcNode = r.m] ELSE bg
           /\ berror' = r.err
           /\ arcnodeMode' = IF r.err = "" THEN node_aggregation ELSE arcnodeMode
    /\ UNCHANGED <<bargs, bpc>>
    /\ UNCHANGED nonBuildVars

BuildNext ==
    \/ /\ bpc = "new"
       /\ \E N \in 1..MaxNodes :
         \E arcs \in ArcLists(N), problem_based \in ProblemArgs, node_aggregation \in AggregationArgs :
           \E masks \in MaskArgs(N, Len(arcs)) :
             \E NodeGraph \in {None, Some(CustomNodeGraph(N))}, ArcNode \in {None, Some(CustomArcNode(Len(arcs), N))} :
               Construct(arcs, NodeList(N), [k \in 1..N |-> 1000 + k], problem_based, masks[1], masks[2], NodeGraph, ArcNode, node_aggregation)
    \/ \E node_aggregation \in AggregationArgs : SetArcNode(node_aggregation)

(***************************************************************************)
(* The life of one BaseGNN instance and of its writer directory:           *)
(* BaseGNN.__init__ (lines 39-63), then train calls.  MakeDir is the       *)
(* environment creating the directory between construction and the first   *)
(* train call.                                                             *)
(***************************************************************************)
AddressedArgs == {"c", "r", "x"}

\* extra_metrics: None, a dict, or neither
MetricsArgs == {"None", "dict", "list"}

NoGnnArgs == [addressed_problem |-> "c", extra_metrics |-> "dict"]

LifeIdle ==
    /\ cargs = NoGnnArgs
    /\ cerror = ""
    /\ dirBefore = FALSE
    /\ rmtrees = 0

LifeInit ==
    /\ history = <<>>
    /\ extra_metrics = {}
    /\ weights = 0
    /\ steps = 0
    /\ pathExists \in BOOLEAN
    /\ calls = 0
    /\ pc = "unbuilt"
    /\ fr = NoFrame
    /\ outcome = "none"
    /\ error = ""
    /\ finalWrite = FALSE
    /\ trained = <<>>
    /\ bestEval = [loss |-> NoBestLoss, w |-> 0]
    /\ callLog = <<>>
    /\ lastTrain = NoTrain
    /\ pre = [op |-> "none", badGraph |-> FALSE, history |-> <<>>, weights |-> 0, steps |-> 0, pathExists |-> FALSE]
    /\ cargs = NoGnnArgs
    /\ cerror = ""
    /\ dirBefore = pathExists
    /\ rmtrees = 0

\* BaseGNN.__init__(optimizer, loss_function, loss_arguments, addressed_problem, extra_metrics, ...)
GnnConstruct(addressed, metrics_arg) ==
    /\ pc = "unbuilt"
    /\ cerror = ""
    /\ cargs' = [addressed_problem |-> addressed, extra_metrics |-> metrics_arg]
    /\ dirBefore' = pathExists
    /\ IF addressed \notin {"c", "r"}
       THEN /\ cerror' = "ValueError"
            /\ UNCHANGED <<pc, extra_metrics, pathExists, rmtrees>>
       ELSE IF metrics_arg \notin {"None", "dict"}
       THEN /\ cerror' = "TypeError"
            /\ UNCHANGED <<pc, extra_metrics, pathExists, rmtrees>>
       ELSE /\ cerror' = ""
            /\ extra_metrics' = IF metrics_arg = "None" THEN {} ELSE MetricNames
            \* if os.path.exists(path_writer): shutil.rmtree(path_writer)
            /\ pathExists' = FALSE
            /\ rmtrees' = IF pathExists THEN rmtrees + 1 ELSE rmtrees
            /\ pc' = "idle"
    /\ UNCHANGED <<history, weights, steps, calls, fr, outcome, error, finalWrite, trained, bestEval, callLog, lastTrain, pre>>
    /\ UNCHANGED nonLifeVars

\* the directory is created from outside before the first train call
MakeDir ==
    /\ pc = "idle"
    /\ calls = 0
    /\ ~pathExists
    /\ pathExists' = TRUE
    /\ UNCHANGED <<history, extra_metrics, weights, steps, calls, pc, fr, outcome, error, finalWrite, trained, bestEval, callLog, lastTrain, pre>>
    /\ UNCHANGED nonTrainVars

\* the train calls of this part: one training graph, a validation set or none
LifeTrain ==
    \E gVa \in {g \in VaArgs : g.kind # "bad"}, epochs \in 1..MaxEpochs, verbose \in Verboses :
        Train([kind |-> "graphs", n |-> 1], epochs, gVa, 1, DefaultMaxFails, verbose)

LifeNext ==
    \/ \E addressed \in AddressedArgs, metrics_arg \in MetricsArgs : GnnConstruct(addressed, metrics_arg)
    \/ MakeDir
    \/ LifeTrain
    \/ LoopHead
    \/ TrainingStep
    \/ EvalTr
    \/ ValidationStep
    \/ Final

Init == TrainInit /\ MergeIdle /\ LkoIdle /\ AliasIdle /\ StoreIdle /\ BuildIdle /\ LifeIdle

Next == TrainNext

Spec == Init /\ [][Next]_vars

InitMerge == TrainInit /\ MergeInit /\ LkoIdle /\ AliasIdle /\ StoreIdle /\ BuildIdle /\ LifeIdle

NextMerge == MergeNext

SpecMerge == InitMerge /\ [][NextMerge]_vars

InitLKO == TrainInit /\ MergeIdle /\ LkoInit /\ AliasIdle /\ StoreIdle /\ BuildIdle /\ LifeIdle

NextLKO == LkoNext

SpecLKO == InitLKO /\ [][NextLKO]_vars

InitAlias == TrainInit /\ MergeIdle /\ LkoIdle /\ AliasInit /\ StoreIdle /\ BuildIdle /\ LifeIdle

NextAlias == AliasNext

SpecAlias == InitAlias /\ [][NextAlias]_vars

InitStore == TrainInit /\ MergeIdle /\ LkoIdle /\ AliasIdle /\ StoreInit /\ BuildIdle /\ LifeIdle

NextStore == StoreNext

SpecStore == InitStore /\ [][NextStore]_vars

InitBuild == TrainInit /\ MergeIdle /\ LkoIdle /\ AliasIdle /\ StoreIdle /\ BuildInit /\ LifeIdle

NextBuild == BuildNext

SpecBuild == InitBuild /\ [][NextBuild]_vars

InitLife == LifeInit /\ MergeIdle /\ LkoIdle /\ AliasIdle /\ StoreIdle /\ BuildIdle

NextLife == LifeNext

SpecLife == InitLife /\ [][NextLife]_vars

(***************************************************************************)
(* The resumption scenario: train(epochs=5) called twice on one model      *)
(***************************************************************************)
ResumeEpochs == 5

ResumeCall ==
    \E gTr \in {g \in GraphArgs : g.kind = "graphs" /\ g.n > 0},
       gVa \in {g \in VaArgs : g.kind # "bad"}, update_freq \in UpdateFreqs :
        Train(gTr, ResumeEpochs, gVa, update_freq, DefaultMaxFails, 3)

ResumeNext ==
    \/ ResumeCall
    \/ LoopHead
    \/ TrainingStep
    \/ EvalTr
    \/ ValidationStep
    \/ Final

NextResume == ResumeNext

SpecResume == Init /\ [][NextResume]_vars

(***************************************************************************)
(* Well-typed train calls on one model, one after the other, of at most    *)
(* MaxTrained epochs in all.                                               *)
(***************************************************************************)
LoopCall ==
    /\ pc = "idle"
    /\ \E n \in {1, MaxGraphs}, gVa \in {g \in VaArgs : g.kind # "bad"}, epochs \in 1..MaxEpochs, update_freq \in UpdateFreqs :
         /\ Len(trained) + epochs <= MaxTrained
         /\ \E max_fails \in (IF Truthy(gVa) THEN {1, MaxFails} ELSE {DefaultMaxFails}) :
              Train([kind |-> "graphs", n |-> n], epochs, gVa, update_freq, max_fails, 3)

LoopNext ==
    \/ LoopCall
    \/ LoopHead
    \/ TrainingStep
    \/ EvalTr
    \/ ValidationStep
    \/ Final

NextLoop == LoopNext

SpecLoop == Init /\ [][NextLoop]_vars

(***************************************************************************)
(* train, evaluate and test calls on one model, in any order: the train    *)
(* calls are well-typed, over one training graph, of at most MaxTrained    *)
(* epochs in all.                                                          *)
(***************************************************************************)
CallsTrain ==
    /\ pc = "idle"
    /\ \E gVa \in {g \in VaArgs : g.kind # "bad"}, epochs \in 1..MaxEpochs, update_freq \in UpdateFreqs :
         /\ Len(trained) + epochs <= MaxTrained
         /\ \E max_fails \in (IF Truthy(gVa) THEN {1, MaxFails} ELSE {DefaultMaxFails}) :
              Train([kind |-> "graphs", n |-> 1], epochs, gVa, update_freq, max_fails, 3)

CallsNext ==
    \/ CallsTrain
    \/ LoopHead
    \/ TrainingStep
    \/ EvalTr
    \/ ValidationStep
    \/ Final
    \/ EvaluateCall
    \/ TestCall

NextCalls == CallsNext

SpecCalls == Init /\ [][NextCalls]_vars

(***************************************************************************)
(* Claims                                                                  *)
(***************************************************************************)
Consecutive(s) == \A k \in 1..(Len(s) - 1) : s[k + 1] = s[k] + 1

NoRepeats(s) == \A j, k \in 1..Len(s) : j # k => s[j] # s[k]

\* C1: after train(epochs=5) has run twice to epoch exhaustion on one model, for
\* whatever update_freq, history['Epoch'] is 10 consecutive integers and no epoch
\* number was trained twice.
C1_ResumeConsecutiveEpochs ==
    (/\ pc = "idle"
     /\ Len(callLog) = 2
     /\ \A c \in 1..2 : /\ callLog[c].epochs = ResumeEpochs
                         /\ callLog[c].outcome = "epoch-exhausted"
                         /\ callLog[c].update_freq = callLog[1].update_freq)
    => /\ Len(history["Epoch"]) = 2 * ResumeEpochs
       /\ Consecutive(history["Epoch"])
       /\ NoRepeats(trained)

\* the validation losses recorded by the running train call
CallLosses == SubSeq(history["Loss Va"], fr.vaRows0 + 1, Len(history["Loss Va"]))

NeverImprovesAfterFirst == \A j \in 2..Len(CallLosses) : CallLosses[j] >= CallLosses[1]

\* C2: a train call stops at the first evaluation at which the failure counter
\* reaches max_fails, no recorded Fail exceeds max_fails, and when the validation
\* loss never improves after the call's first evaluation and max_fails = 3 it
\* stops at the 3rd consecutive non-improving evaluation holding the weights of
\* the evaluation that had the best validation loss.
C2_EarlyStopRestoresBest ==
    (pc = "final" /\ outcome = "early-stopped")
    => /\ fr.vfails = fr.max_fails
       /\ \A j \in (fr.vaRows0 + 1)..Len(history["Fail"]) : history["Fail"][j] <= fr.max_fails
       /\ (fr.max_fails = 3 /\ NeverImprovesAfterFirst)
          => /\ Len(history["Fail"]) >= 3
             /\ SubSeq(history["Fail"], Len(history["Fail"]) - 2, Len(history["Fail"]))
                    = <<1, 2, 3>>
             /\ weights = bestEval.w

\* C3: a train call with well-typed arguments ends early-stopped or
\* epoch-exhausted, never by an exception, and has done the final telemetry write.
C3_TrainTerminatesNormally ==
    (pc = "idle" /\ pre.op = "train" /\ lastTrain.wellTyped)
    => /\ outcome \in {"early-stopped", "epoch-exhausted"}
       /\ error = ""
       /\ finalWrite

\* C4: evaluate, test or train called with a malformed graph argument raises a
\* type error and leaves history, weights, optimizer steps and the writer
\* directory as they were before the call.
C4_TypeErrorNoPartialExecution ==
    (pc = "idle" /\ pre.badGraph)
    => /\ outcome = "raised"
       /\ error = "TypeError"
       /\ history = pre.history
       /\ weights = pre.weights
       /\ steps = pre.steps
       /\ pathExists = pre.pathExists

KeysTr == {"Epoch", "It Tr", "Loss Tr", "Acc Tr"}

KeysVa == KeysTr \cup {"It Va", "Loss Va", "Acc Va", "Fail", "Best Loss Va"}

\* C5: the first train call allocates Epoch, the training-split keys and, iff a
\* validation set is given, the validation-split keys with Fail and Best Loss Va;
\* no later train call fails on a missing key.
C5_HistoryKeyAllocation ==
    /\ (calls = 1 /\ DOMAIN history # {})
       => DOMAIN history = (IF lastTrain.gVa THEN KeysVa ELSE KeysTr)
    /\ Len(callLog) = calls - 1 => error # "KeyError"

RECURSIVE CountBefore(_, _, _)
\* the number of rows of field f in the graphs before the i-th
CountBefore(bs, f, i) ==
    IF i = 1 THEN 0 ELSE CountBefore(bs, f, i - 1) + Len(bs[i - 1][f])

CountAll(bs, f) == CountBefore(bs, f, Len(bs) + 1)

\* field f of m is the fields f of bs one after the other
ConcatenatedInOrder(bs, m, f) ==
    /\ Len(m[f]) = CountAll(bs, f)
    /\ \A i \in 1..Len(bs) : \A j \in 1..Len(bs[i][f]) :
          m[f][CountBefore(bs, f, i) + j] = bs[i][f][j]

\* the arcs of m are the arcs of bs in order, both endpoints of graph i moved
\* by the number of nodes before graph i, the label kept
ArcsOffsetInOrder(bs, m) ==
    /\ Len(m.arcs) = CountAll(bs, "arcs")
    /\ \A i \in 1..Len(bs) : \A k \in 1..Len(bs[i].arcs) :
          m.arcs[CountBefore(bs, "arcs", i) + k]
             = << bs[i].arcs[k][1] + CountBefore(bs, "nodes", i),
                  bs[i].arcs[k][2] + CountBefore(bs, "nodes", i),
                  bs[i].arcs[k][3] >>
    /\ \A k \in 1..Len(m.arcs) : /\ m.arcs[k][1] \in 0..(Len(m.nodes) - 1)
                                 /\ m.arcs[k][2] \in 0..(Len(m.nodes) - 1)

MergeOf(bs, m) ==
    /\ ArcsOffsetInOrder(bs, m)
    /\ \A f \in {"nodes", "targets", "set_mask", "output_mask"} : ConcatenatedInOrder(bs, m, f)
    /\ Len(bs) = 1 => /\ m.arcs = bs[1].arcs
                      /\ m.nodes = bs[1].nodes
                      /\ m.targets = bs[1].targets
                      /\ m.set_mask = bs[1].set_mask
                      /\ m.output_mask = bs[1].output_mask

BlockDiagonalOver(bs, m) ==
    /\ m.NodeGraph # None
    /\ LET M == m.NodeGraph[1]
       IN  /\ Len(M) = CountAll(bs, "nodes")
           /\ \A r \in 1..Len(M) :
                 /\ Len(M[r]) = Len(bs)
                 /\ \A c \in 1..Len(bs) :
                       M[r][c] = IF /\ CountBefore(bs, "nodes", c) < r
                                    /\ r <= CountBefore(bs, "nodes", c + 1)
                                 THEN Len(bs[c].nodes)
                                 ELSE 0

WellSized ==
    /\ number_of_batches >= 2
    /\ dform = "flat" => Len(dataset0.list) >= number_of_batches + (IF useVa THEN 1 ELSE 0)
    /\ dform = "nested" => Len(dataset0.classes) >= 2

\* C6: for every dataset form, every useVa and every acc_classes, LKO returns a
\* mapping in which every key (extra metrics, It, Loss, 'Acc Classes' when
\* present) holds exactly number_of_batches entries, one per fold.
C6_FoldMetricsPerKey ==
    (lpc \in {"returned", "raised"} /\ WellSized)
    => /\ lpc = "returned"
       /\ \A k \in DOMAIN metrics : Len(metrics[k]) = number_of_batches

\* the class of a graph of a list dataset
ClassOf(id) == id \div 10

\* C7: from a per-class nested list with several classes LKO builds
\* number_of_batches folds (one more with useVa), each a graph that holds graphs
\* of more than one class.
C7_NestedListStratified ==
    (dform = "nested" /\ lpc = "built" /\ Len(dataset0.classes) >= 2)
    => /\ Len(batches) = number_of_batches + (IF useVa THEN 1 ELSE 0)
       /\ \A b \in 1..Len(batches) :
             /\ batches[b].isGraph
             /\ Cardinality({ClassOf(batches[b].ids[a]) : a \in 1..Len(batches[b].ids)}) >= 2

\* C8: when LKO returns, the caller's dataset holds the same elements in the
\* same order and the source model has the weights and the history it had.
C8_LKOOnlyReadsInputs ==
    lpc = "returned"
    => /\ dataset = dataset0
       /\ weights = 0
       /\ history = <<>>

\* C11: every GraphObject holds the values it was given (a copy those of its
\* original, a merged graph those of the merge of its inputs) changed only by
\* the writes made through that object itself: a write through a copy or a
\* merged graph does not reach the original or the inputs, a write through the
\* original does not reach the copy, and merge does not shift its inputs' arcs.
C11_NoAliasing ==
    \A o \in 1..Len(objs) : Value(heap, objs[o]) = expected[o]

C11_Witness ==
    /\ written
    /\ Len(objs) > inputs + 1
    /\ \E o \in 1..inputs : Value(heap, objs[o]).arcs # Value(heap, objs[inputs + 1]).arcs

\* the entity count the default masks are built for
EntityCount(g, problem_based) == IF problem_based = "a" THEN Len(g.arcs) ELSE Len(g.nodes)

\* C12: a load after any sequence of saves into one folder returns the arcs,
\* nodes and targets of the last saved graph, its masks and NodeGraph where they
\* were not the defaults and the defaults where they were, and the folder holds
\* files of the last save only.
C12_SaveLoadRoundTrip ==
    (spc = "loaded")
    => LET g == lastSaved.g
       IN  /\ loaded.err = ""
           /\ loaded.arcs = g.arcs
           /\ loaded.nodes = g.nodes
           /\ loaded.targets = g.targets
           /\ loaded.set_mask = IF ~AllTrue(g.set_mask) THEN g.set_mask
                                ELSE Ones(EntityCount(g, sproblem))
           /\ loadedDims = [set_mask |-> Ndim("set_mask"), output_mask |-> Ndim("output_mask")]
           /\ loaded.output_mask = IF ~AllTrue(g.output_mask) THEN g.output_mask
                                   ELSE Ones(EntityCount(g, sproblem))
           /\ loaded.NodeGraph = IF g.NodeGraph # buildNodeGraph(g.nodes, sproblem)
                                 THEN g.NodeGraph
                                 ELSE buildNodeGraph(g.nodes, sproblem)
           /\ \A f \in DOMAIN folder : folder[f].save = saves

\* the arcs that end in node j (columns are numbered from 1, node indices from 0)
InDegree(arcs, j) == Cardinality({k \in 1..Len(arcs) : arcs[k][2] = j - 1})

Column(m, j) == [i \in 1..Len(m) |-> m[i][j]]

RECURSIVE ProdOf(_, _)
\* the product of the nonzero denominators among the first k entries of s
ProdOf(s, k) == IF k = 0 THEN 1 ELSE (IF s[k] = 0 THEN 1 ELSE s[k]) * ProdOf(s, k - 1)

RECURSIVE ScaledSum(_, _, _)
\* M times the sum of the first k entries of s, an entry d > 0 being 1/d
ScaledSum(s, k, M) ==
    IF k = 0 THEN 0 ELSE (IF s[k] = 0 THEN 0 ELSE M \div s[k]) + ScaledSum(s, k - 1, M)

\* the entries of s sum to p/q
SumsTo(s, p, q) == q * ScaledSum(s, Len(s), ProdOf(s, Len(s))) = p * ProdOf(s, Len(s))

\* C13 as stated: under 'average' every ArcNode row of an arc whose destination
\* has in-degree >= 1 sums to 1, and the entries of an isolated node sum to 0.
C13_AverageRowsSumToOne ==
    (bpc = "built" /\ arcnodeMode = "average")
    => /\ \A i \in 1..Len(bg.arcs) :
            InDegree(bg.arcs, bg.arcs[i][2] + 1) >= 1 => SumsTo(bg.ArcNode[i], 1, 1)
       /\ \A j \in 1..Len(bg.nodes) :
            InDegree(bg.arcs, j) = 0 => SumsTo(Column(bg.ArcNode, j), 0, 1)

\* C13 amended: under 'average' every ArcNode column of a node with in-degree
\* d >= 1 sums to 1, every row sums to 1/d for the in-degree d of its arc's
\* destination, and the column of an isolated node sums to 0.
C13_AverageColumnsSumToOne ==
    (bpc = "built" /\ arcnodeMode = "average")
    => /\ \A j \in 1..Len(bg.nodes) :
            /\ InDegree(bg.arcs, j) >= 1 => SumsTo(Column(bg.ArcNode, j), 1, 1)
            /\ InDegree(bg.arcs, j) = 0 => SumsTo(Column(bg.ArcNode, j), 0, 1)
       /\ \A i \in 1..Len(bg.arcs) :
            SumsTo(bg.ArcNode[i], 1, InDegree(bg.arcs, bg.arcs[i][2] + 1))

C13_Witness ==
    /\ bpc = "built"
    /\ arcnodeMode = "average"
    /\ \E j \in 1..Len(bg.nodes) : InDegree(bg.arcs, j) >= 2
    /\ \E j \in 1..Len(bg.nodes) : InDegree(bg.arcs, j) = 0

\* C14: buildArcNode puts one nonzero entry in each row, in the column of the
\* arc's destination, 1 under 'sum', 1/in-degree under 'average' and 1/arc count
\* under 'normalized'; a column sums to the in-degree, to 1 (in-degree >= 1) and
\* to in-degree/arc count respectively, the column of a node with no incoming arc
\* is zero in every mode, and no mode divides by zero.
C14_ArcNodeEntries ==
    /\ berror # "ZeroDivisionError"
    /\ (bpc = "built" /\ arcnodeMode \in NodeAggregations)
       => LET A == Len(bg.arcs)
              d(j) == InDegree(bg.arcs, j)
          IN  /\ \A i \in 1..A : \A j \in 1..Len(bg.nodes) :
                    bg.ArcNode[i][j] =
                        IF bg.arcs[i][2] # j - 1 THEN 0
                        ELSE CASE arcnodeMode = "sum" -> 1
                               [] arcnodeMode = "average" -> d(j)
                               [] arcnodeMode = "normalized" -> A
              /\ \A j \in 1..Len(bg.nodes) :
                    /\ arcnodeMode = "sum" => SumsTo(Column(bg.ArcNode, j), d(j), 1)
                    /\ (arcnodeMode = "average" /\ d(j) >= 1) => SumsTo(Column(bg.ArcNode, j), 1, 1)
                    /\ (arcnodeMode = "normalized" /\ A > 0) => SumsTo(Column(bg.ArcNode, j), d(j), A)
                    /\ d(j) = 0 => \A i \in 1..A : bg.ArcNode[i][j] = 0

\* C15: every GraphObject built has len(set_mask) = len(output_mask) = entity
\* count (nodes for 'n' and 'g', arcs for 'a') whichever masks were given or
\* omitted, and the construction raises whenever the two mask lengths differ.
C15_MaskLengths ==
    /\ (bpc = "built" /\ bargs.problem_based \in ProblemTypes)
       => /\ Len(bg.set_mask) = Len(bg.output_mask)
          /\ Len(bg.set_mask) = EntityCount(bg, bargs.problem_based)
    /\ (bpc \in {"built", "raised"} /\ bargs.set_mask # None /\ bargs.output_mask # None
          /\ Len(bargs.set_mask[1]) # Len(bargs.output_mask[1]))
       => bpc = "raised"
    /\ \A g \in {merged, nested} :
          g.err = "" => /\ Len(g.set_mask) = Len(g.output_mask)
                        /\ Len(g.set_mask) = EntityCount(g, problem)

\* C16: bad arguments fail at the call that brings them: a GraphObject
\* construction with a problem_based outside {n, a, g} or a node_aggregation
\* outside {sum, average, normalized} raises whatever the other arguments are; a
\* BaseGNN construction with an unknown addressed_problem or a non-mapping
\* extra_metrics raises with the writer directory untouched; a train call with
\* verbose outside 0..3 raises with no training step and no history change.
C16_BadArgumentsFailFast ==
    /\ (bpc \in {"built", "raised"}
          /\ (bargs.problem_based \notin ProblemTypes
                \/ bargs.node_aggregation \notin NodeAggregations))
       => bpc = "raised"
    /\ (cargs.addressed_problem \notin {"c", "r"} \/ cargs.extra_metrics \notin {"None", "dict"})
       => /\ cerror # ""
          /\ pc = "unbuilt"
          /\ pathExists = dirBefore
          /\ rmtrees = 0
    /\ (pre.op = "train" /\ lastTrain.verbose \notin 0..3)
       => /\ outcome = "raised"
          /\ error = "ValueError"
          /\ steps = pre.steps
          /\ history = pre.history
          /\ pathExists = pre.pathExists

\* C17: a successful construction leaves the writer directory existing and
\* empty; the first train call after it raises no error over the directory
\* whether or not the directory exists at that moment; and no later train call
\* removes the directory.
C17_WriterDirectoryLifecycle ==
    /\ (pc = "idle" /\ calls = 0 /\ cerror = "" /\ cargs.extra_metrics \in {"None", "dict"})
       => pathExists
    /\ (pre.op = "train" /\ outcome = "raised") => error # "FileExistsError"
    /\ (calls > 0 /\ DOMAIN history # {}) => pathExists
    /\ rmtrees <= 1

\* the optimizer updates applied since the running train call began
UpdatesOfCall == steps - pre.steps

\* C18: in every epoch of a train call the graphs of the training list get one
\* optimizer update each, in list order, all of them before the epoch's
\* evaluation; a call that ends epoch-exhausted after E epochs over n graphs has
\* applied E*n updates and one early-stopped at its k-th epoch k*n.
C18_OneUpdatePerGraphPerEpoch ==
    LET n == fr.gTr.n
        done == fr.e - fr.initial_epoch
    IN  /\ pc = "training" => /\ fr.i <= n
                              /\ UpdatesOfCall = done * n + fr.i
        /\ pc = "validation" => UpdatesOfCall = (done + 1) * n
        /\ (pc = "final" /\ outcome = "epoch-exhausted")
           => UpdatesOfCall = (fr.epochs - fr.initial_epoch) * n
        /\ (pc = "final" /\ outcome = "early-stopped")
           => UpdatesOfCall = (done + 1) * n

C18_Witness ==
    /\ pc = "final"
    /\ outcome = "early-stopped"
    /\ fr.gTr.n = 2
    /\ fr.initial_epoch > 0
    /\ fr.e - fr.initial_epoch + 1 = 2
    /\ UpdatesOfCall = 4

MinOf(S) == CHOOSE x \in S : \A y \in S : x <= y

\* every Best Loss Va entry is the least validation loss recorded up to it
BestLossIsRunningMin ==
    ("Best Loss Va" \in DOMAIN history)
    => /\ Len(history["Best Loss Va"]) = Len(history["Loss Va"])
       /\ Len(history["Fail"]) = Len(history["Loss Va"])
       /\ \A j \in 1..Len(history["Best Loss Va"]) :
            /\ history["Best Loss Va"][j] = MinOf({history["Loss Va"][k] : k \in 1..j})
            /\ j > 1 => history["Best Loss Va"][j] <= history["Best Loss Va"][j - 1]

\* a validation check: the step that appends a validation loss
ValidationRule ==
    (pc = "validation" /\ history' # history)
    => LET lossVa == Last(history'["Loss Va"])
       IN  /\ fr.gVa /\ fr.e % fr.update_freq = 0
           /\ IF lossVa < fr.vbest_loss
              THEN /\ fr'.vfails = 0
                   /\ fr'.vbest_loss = lossVa
                   /\ fr'.ws = weights
              ELSE /\ fr'.vfails = fr.vfails + 1
                   /\ fr'.vbest_loss = fr.vbest_loss
                   /\ fr'.ws = fr.ws
           /\ history'["Fail"] = Append(history["Fail"], fr'.vfails)
           /\ history'["Best Loss Va"] = Append(history["Best Loss Va"], fr'.vbest_loss)

\* C19: at every evaluation epoch with a validation set, a validation loss
\* strictly below the best seen sets the failure counter to 0, the best loss to
\* that loss and snapshots the weights; any other loss, an equal one included,
\* adds 1 to the counter and leaves best loss and snapshot alone; counter and
\* best loss are then appended to Fail and Best Loss Va.  Best Loss Va is
\* non-increasing over the whole history and each entry is the minimum of the
\* validation losses recorded so far.
C19_ValidationCheck == []BestLossIsRunningMin /\ [][ValidationRule]_vars

\* a second train call has met, at its first check, the best loss of the first
C19_Witness ==
    /\ pc \in {"loop", "final"}
    /\ fr.gVa
    /\ fr.initial_epoch > 0
    /\ fr.vfails = 1
    /\ Len(history["Loss Va"]) >= 2
    /\ Last(history["Loss Va"]) = history["Best Loss Va"][Len(history["Loss Va"]) - 1]

\* the last epoch of the running call whose evaluation step is over
LastEvaluated == IF pc = "training" THEN fr.e - 1 ELSE IF pc = "validation" THEN fr.e ELSE fr.next - 1

\* C20: within a train call the Epoch values recorded are exactly the epochs
\* of the call that are multiples of update_freq, successive ones differ by
\* update_freq, and history['Epoch'] is strictly increasing over all the calls.
C20_EvaluationCadence ==
    (pc \in {"loop", "training", "validation", "final"})
    => LET Epoch == history["Epoch"]
           ofCall == {j \in 1..Len(Epoch) : Epoch[j] >= fr.initial_epoch}
       IN  /\ {Epoch[j] : j \in ofCall}
                = {e \in fr.initial_epoch..LastEvaluated : e % fr.update_freq = 0}
           /\ \A j \in ofCall : (j - 1) \in ofCall => Epoch[j] - Epoch[j - 1] = fr.update_freq
           /\ \A j \in 1..(Len(Epoch) - 1) : Epoch[j] < Epoch[j + 1]

\* a second call with update_freq 2 that began at epoch 1 has skipped it and recorded epoch 2
C20_Witness ==
    /\ pc = "final"
    /\ fr.initial_epoch = 1
    /\ fr.update_freq = 2
    /\ history["Epoch"] = <<0, 2>>

IsPrefix(s, t) == Len(s) <= Len(t) /\ \A k \in 1..Len(s) : t[k] = s[k]

\* a step keeps every key of the history and every entry recorded under it
AppendOnly ==
    /\ DOMAIN history \subseteq DOMAIN history'
    /\ \A k \in DOMAIN history : IsPrefix(history[k], history'[k])

\* a direct evaluate or test call leaves history and weights as they were
ReadOnlyCalls ==
    (calls' = calls + 1 /\ pre'.op \in {"evaluate", "test"})
    => /\ history' = history
       /\ weights' = weights

\* C21: over any sequence of train, evaluate and test calls every step leaves
\* each history sequence as it was or extends it at the end, and removes no
\* key; evaluate and test called directly leave history and weights unchanged.
C21_HistoryAppendOnly == [][AppendOnly /\ ReadOnlyCalls]_vars

\* an evaluate call has returned on a model whose history holds two epochs
C21_Witness ==
    /\ pre.op = "evaluate"
    /\ outcome = "returned"
    /\ "Epoch" \in DOMAIN history
    /\ Len(history["Epoch"]) >= 2

BestEvaluation ==
    CHOOSE j \in 1..Len(history["Loss Va"]) :
        /\ history["Loss Va"][j] = Last(history["Best Loss Va"])
        /\ \A k \in 1..(j - 1) : history["Loss Va"][k] # Last(history["Best Loss Va"])

\* C24: in every state of a train call with a validation set, resumed calls
\* included, the snapshot held as best is the weights the model had at the
\* evaluation that measured the last Best Loss Va value, the failure counter
\* counts the evaluations since that one, and an early stop restores those
\* weights.
C24_BestSnapshotOnResume ==
    (pc \in {"loop", "training", "validation", "final"} /\ fr.gVa
        /\ history["Best Loss Va"] # <<>>)
    => /\ fr.vbest_loss = Last(history["Best Loss Va"])
       /\ fr.ws = bestEval.w
       /\ fr.vfails = Len(history["Loss Va"]) - BestEvaluation
       /\ (pc = "final" /\ outcome = "early-stopped") => weights = bestEval.w

\* the elements of the dataset LKO was called with: entity indices or graphs
Elements ==
    CASE dform = "single" -> 0..(dataset0.entities - 1)
      [] dform = "flat" -> {dataset0.list[k] : k \in 1..Len(dataset0.list)}
      [] OTHER -> UNION {{dataset0.classes[c][j] : j \in 1..Len(dataset0.classes[c])} :
                            c \in 1..Len(dataset0.classes)}

\* the elements batch b holds
BatchElements(b) ==
    IF dform = "single" THEN batches[b].mask
    ELSE {batches[b].ids[a] : a \in 1..Len(batches[b].ids)}

\* the batches of a fold that are not its test batch
Others(f) == {f.tr[k] : k \in 1..Len(f.tr)}

\* C23: the batches LKO builds partition the dataset (for a single graph each
\* batch is a copy of the graph and every entity index is set in the set_mask
\* of exactly one batch); in every fold the test batch, the validation batch
\* (with useVa) and the training batches are pairwise disjoint and together are
\* all the batches; each non-validation batch is the test batch of exactly one
\* fold, and with useVa the validation batch is the same in every fold and is
\* never a test or a training batch.
C23_LKOSplit ==
    (lpc \in {"built", "returned", "raised"} /\ batches # <<>>)
    => LET B == 1..Len(batches)
           validation == IF useVa THEN {Len(batches)} ELSE {}
       IN  /\ \A x \in Elements : Cardinality({b \in B : x \in BatchElements(b)}) = 1
           /\ \A b \in B : BatchElements(b) \subseteq Elements
           /\ dform = "single" => \A b \in B : batches[b].isGraph
           /\ \A k \in 1..Len(folds) :
                 LET f == folds[k]
                 IN  /\ f.te \notin Others(f)
                     /\ Cardinality(Others(f)) = Len(f.tr)
                     /\ (IF useVa THEN {f.va} ELSE {}) = validation
                     /\ validation \cap (Others(f) \cup {f.te}) = {}
                     /\ {f.te} \cup validation \cup Others(f) = B
           /\ lpc \in {"returned", "raised"}
              => \A b \in B \ validation :
                    Cardinality({k \in 1..Len(folds) : folds[k].te = b}) = 1

====
